---- MODULE Spec2Model ----
(***************************************************************************)
(* The two lint rules of src/rules: NoRedeclare (no_redeclare.rs) and      *)
(* NoSetterReturn (no_setter_return.rs), each a visitor that walks a       *)
(* parsed program depth-first and reports diagnostics into a Context.      *)
(*                                                                         *)
(* A program is a sequence of syntax nodes in source order (pre-order):    *)
(* node i has source position i, names its parent node (0 = the Program    *)
(* root) and the field of the parent that holds it.  The identifiers a     *)
(* node binds carry their own spans <<i, k>>.                              *)
(***************************************************************************)
EXTENDS Integers, Sequences, FiniteSets

\* Bound of the model: the weight of the largest program analysed.
MaxNodes == 4

\* Bound of the model: the largest number of identifiers in one binding pattern.
MaxPat == 2

\* The names identifiers are written with: bindings differ by their scope.
Syms == {"a"}

\* Node types that open a function scope.
ScopeTypes == {"FnDecl", "FnExpr", "ClassMethod", "PrivateMethod", "SetterProp"}

MethodKind == {"Method", "Setter"}

StmtTypes == {"FnDecl", "VarDeclarator", "Block", "Return", "Class"}
ExprTypes == {"FnExpr", "SetterProp"}
MemberTypes == {"ClassMethod", "PrivateMethod", "ClassProp"}

\* An identifier occurrence as the parser and the resolver produce it.
Ident(sym, ctxt, span) == [sym |-> sym, ctxt |-> ctxt, span |-> span]

\* A syntax node.  Fields a node type does not have hold a fixed default.
Node(type, parent, field, span, ids, has_body, kind, computed, has_arg) ==
  [type |-> type, parent |-> parent, field |-> field, span |-> span,
   ids |-> ids, has_body |-> has_body, kind |-> kind,
   computed |-> computed, has_arg |-> has_arg]

----------------------------------------------------------------------------
(* The well-formed programs up to MaxNodes.                                *)

RECURSIVE Ancestors(_, _)
\* The node i of program t and everything above it, the root 0 included.
Ancestors(t, i) == IF i = 0 THEN {0} ELSE {i} \cup Ancestors(t, t[i].parent)

TypeOf(t, p) == IF p = 0 THEN "Program" ELSE t[p].type

\* Children of node p of program t, in source order; those in one field.
ChildrenOf(t, p) == SelectSeq([i \in 1..Len(t) |-> i], LAMBDA i : t[i].parent = p)
ChildrenIn(t, p, f) ==
  SelectSeq([i \in 1..Len(t) |-> i], LAMBDA i : t[i].parent = p /\ t[i].field = f)

\* The fields of a node that hold child nodes, in the order they are written.
FieldsOf(t, p) ==
  LET ty == TypeOf(t, p) IN
  CASE ty = "Program" -> <<"body">>
    [] ty \in {"FnDecl", "ClassMethod", "PrivateMethod"} ->
         IF t[p].has_body THEN <<"params", "body">> ELSE <<"params">>
    [] ty = "FnExpr" -> <<"params", "body">>
    [] ty = "VarDeclarator" -> <<"init">>
    [] ty = "Block" -> <<"stmts">>
    [] ty = "Class" -> <<"body">>
    [] ty = "ClassProp" -> IF t[p].computed THEN <<"key", "value">> ELSE <<"value">>
    [] ty = "SetterProp" -> IF t[p].has_body THEN <<"body">> ELSE <<>>
    [] OTHER -> <<>>

\* Fields that hold one node at most.
SingleFields == {"init", "key", "value"}

FieldRank(t, p, f) == CHOOSE k \in 1..Len(FieldsOf(t, p)) : FieldsOf(t, p)[k] = f

\* The fields of p a node appended to t can go to: not before the field of
\* p's last child, and not into a single field that is taken.
OpenFields(t, p) ==
  LET fs == FieldsOf(t, p)
      cs == ChildrenOf(t, p)
      lastRank == IF cs = <<>> THEN 0 ELSE FieldRank(t, p, t[cs[Len(cs)]].field)
  IN { fs[k] : k \in { j \in 1..Len(fs) :
         /\ j >= lastRank
         /\ fs[j] \in SingleFields => ChildrenIn(t, p, fs[j]) = <<>> } }

RECURSIVE FnScope(_, _)
\* The function whose scope node p of t is written in (p itself if it opens
\* one), 0 at the top level.
FnScope(t, p) ==
  IF p = 0 \/ t[p].type \in ScopeTypes THEN p ELSE FnScope(t, t[p].parent)

\* The node types field f of node p of t holds.  A return statement is
\* written inside a function only.
TypesIn(t, p, f) ==
  CASE f = "params" -> {"Param"}
    [] f \in {"init", "key", "value"} -> ExprTypes
    [] f = "body" /\ TypeOf(t, p) = "Class" -> MemberTypes
    [] FnScope(t, p) = 0 -> StmtTypes \ {"Return"}
    [] OTHER -> StmtTypes

\* The syntax contexts the resolver gives a binding written directly under
\* node p: the scope of the enclosing function (var, parameters, functions),
\* or that of the block p itself (let, const).  Each scope has the position
\* of the node that opens it as its context, so two bindings have the same
\* Id exactly if they have the same name in the same scope.
CtxtsAt(t, p) == {p, FnScope(t, p)}

\* The binding patterns of at most MaxPat identifiers written at position n,
\* all in the scope c, with names of syms.
Patterns(n, c, syms) ==
  UNION { { [k \in 1..len |-> Ident(ss[k], c, <<n, k>>)] :
              ss \in [1..len -> syms] } : len \in 1..MaxPat }

\* The programs analysed are of two families: "bindings" has the syntax
\* NoRedeclare tells apart (declarations in every variant, plain methods and
\* class properties around them), "setters" the syntax NoSetterReturn tells
\* apart (methods and setter properties in every variant, return statements,
\* one plain declaration of each kind around them).
Families == {"bindings", "setters"}

TypesOf(fam) ==
  IF fam = "bindings"
  THEN {"FnDecl", "VarDeclarator", "Param", "FnExpr", "Block", "Class",
        "ClassMethod", "ClassProp"}
  ELSE {"VarDeclarator", "Block", "Return", "Class",
        "ClassMethod", "PrivateMethod", "ClassProp", "SetterProp"}

\* The nodes of type ty that can stand at position n of t under parent p,
\* field f, in a program of family fam.
Shapes(t, fam, ty, p, f, n) ==
  LET all == fam = "bindings"
      syms == IF all THEN Syms ELSE {"a"}
      ctxts == IF all THEN CtxtsAt(t, p) ELSE {FnScope(t, p)}
      bool == IF all THEN BOOLEAN ELSE {TRUE}
  IN
  CASE ty = "FnDecl" ->
         { Node(ty, p, f, <<n, 0>>, <<Ident(s, c, <<n, 1>>)>>, b, "None", FALSE, FALSE) :
             s \in syms, c \in ctxts, b \in bool }
    [] ty \in {"VarDeclarator", "Param"} ->
         UNION { { Node(ty, p, f, <<n, 0>>, ids, FALSE, "None", FALSE, FALSE) :
                     ids \in IF all THEN Patterns(n, c, syms)
                                    ELSE { q \in Patterns(n, c, syms) : Len(q) = 1 } } :
                 c \in ctxts }
    [] ty = "Return" ->
         { Node(ty, p, f, <<n, 0>>, <<>>, FALSE, "None", FALSE, a) : a \in BOOLEAN }
    [] ty = "ClassMethod" ->
         { Node(ty, p, f, <<n, 0>>, <<>>, b, k, FALSE, FALSE) :
             b \in IF all THEN {TRUE} ELSE BOOLEAN,
             k \in IF all THEN {"Method"} ELSE MethodKind }
    [] ty = "PrivateMethod" ->
         { Node(ty, p, f, <<n, 0>>, <<>>, b, "Setter", FALSE, FALSE) : b \in BOOLEAN }
    [] ty = "ClassProp" ->
         { Node(ty, p, f, <<n, 0>>, <<>>, FALSE, "None", c, FALSE) :
             c \in IF all THEN BOOLEAN ELSE {FALSE} }
    [] ty = "SetterProp" ->
         { Node(ty, p, f, <<n, 0>>, <<>>, b, "None", FALSE, FALSE) : b \in BOOLEAN }
    [] ty = "FnExpr" ->
         { Node(ty, p, f, <<n, 0>>, <<>>, TRUE, "None", FALSE, FALSE) }
    [] OTHER ->
         { Node(ty, p, f, <<n, 0>>, <<>>, FALSE, "None", FALSE, FALSE) }

\* The weight of a program: its nodes, and the identifiers its binding
\* patterns have after their first.
Size(t) ==
  Len(t) + Cardinality({ ik \in (1..Len(t)) \X (2..MaxPat) : ik[2] <= Len(t[ik[1]].ids) })

\* The programs of family fam that are t with one more node written after it.
Extensions(t, fam) ==
  LET n == Len(t) + 1
      path == IF t = <<>> THEN {0} ELSE Ancestors(t, Len(t))
  IN UNION { UNION { UNION { { Append(t, nd) : nd \in Shapes(t, fam, ty, p, f, n) } :
                ty \in TypesIn(t, p, f) \cap TypesOf(fam) } :
                f \in OpenFields(t, p) } : p \in path }

----------------------------------------------------------------------------
(* The state of the linter.                                                *)

VARIABLES
  program,      \* the parsed program the rules run over (never modified)
  rule,         \* code of the rule whose lint_program runs or ran last
  stack,        \* nodes the running visitor has still to visit, next first
  bindings,     \* NoRedeclareVisitor.bindings
  diagnostics,  \* the diagnostics of the Context given to the running pass
  declared,     \* the identifiers passed to declare() in this pass, in order
  results       \* per rule, the diagnostics of its first finished pass

vars == <<program, rule, stack, bindings, diagnostics, declared, results>>

Rules == {"no-redeclare", "no-setter-return"}

\* Context::add_diagnostic: the diagnostic is appended to those reported so far.
add_diagnostic(diags, span, code, message) ==
  Append(diags, [span |-> span, code |-> code, message |-> message])

\* to_id as it would be if it dropped the syntax context.
to_id_name_only(i) == <<i.sym, 0>>

\* Ident::to_id: the name of the identifier with its syntax context.
to_id(i) == <<i.sym, i.ctxt>>

\* HashSet::insert as declare uses it: whether the value was not in the set.
insert(set, id) == id \notin set

\* declare as it would be if a redeclaration took the binding out of the set.
declare_forgetful(v, i) ==
  LET id == to_id(i) IN
  IF ~insert(v.bindings, id)
  THEN [v EXCEPT !.diagnostics =
                   add_diagnostic(@, i.span, "no-redeclare", "Redeclaration is not allowed"),
                 !.bindings = @ \ {id},
                 !.declared = Append(@, i)]
  ELSE [v EXCEPT !.bindings = @ \cup {id}, !.declared = Append(@, i)]

\* NoRedeclareVisitor::declare on the visitor state v (bindings, diagnostics
\* of its context, identifiers declared so far).
declare(v, i) ==
  LET id == to_id(i) IN
  IF ~insert(v.bindings, id)
  THEN [v EXCEPT !.diagnostics =
                   add_diagnostic(@, i.span, "no-redeclare", "Redeclaration is not allowed"),
                 !.declared = Append(@, i)]
  ELSE [v EXCEPT !.bindings = @ \cup {id}, !.declared = Append(@, i)]

\* utils::find_ids: the identifiers a binding pattern binds, in source order.
find_ids(pat) == [k \in 1..Len(pat) |-> pat[k]]

RECURSIVE declare_each(_, _)
\* for id in ids { self.declare(&id) }
declare_each(v, ids) ==
  IF ids = <<>> THEN v ELSE declare_each(declare(v, Head(ids)), Tail(ids))

Visitor == [bindings |-> bindings, diagnostics |-> diagnostics, declared |-> declared]

\* The running visitor takes the state v and goes on with the nodes todo.
Continue(v, todo) ==
  /\ bindings' = v.bindings
  /\ diagnostics' = v.diagnostics
  /\ declared' = v.declared
  /\ stack' = todo
  /\ UNCHANGED <<program, rule, results>>

\* The node the running visitor of rule r visits next is of type ty.
Visiting(r, ty) ==
  /\ rule = r
  /\ stack # <<>>
  /\ program[Head(stack)].type = ty

\* The bindings of a visitor that kept those of the visitor before it.
KeptBindings(old) == old

\* bindings: Default::default() of NoRedeclare::lint_program, whatever
\* bindings an earlier visitor had.
NewBindings(old) == {}

\* The body of LintRule::lint_program of rule r, entered when no pass runs,
\* with a fresh Context: the visitor is built and starts at the program's body.
StartPass(r) ==
  /\ stack = <<>>
  /\ rule' = r
  /\ bindings' = NewBindings(bindings)
  /\ diagnostics' = <<>>
  /\ declared' = <<>>
  /\ stack' = ChildrenOf(program, 0)
  /\ UNCHANGED program

\* LintRule::lint_program of rule r.
lint_program(r) == StartPass(r) /\ UNCHANGED results

\* The driver calls lint_program of rule r and keeps what the first pass of
\* each rule reported.
collect_and_lint(r) ==
  /\ StartPass(r)
  /\ results' = IF rule \in Rules /\ results[rule] = <<>>
                THEN [results EXCEPT ![rule] = <<diagnostics>>]
                ELSE results

----------------------------------------------------------------------------
(* NoRedeclareVisitor                                                      *)

\* visit_fn_decl as it would be without the check for a body.
visit_fn_decl_any ==
  /\ Visiting("no-redeclare", "FnDecl")
  /\ LET f == Head(stack) IN
     Continue(declare(Visitor, program[f].ids[1]),
              ChildrenOf(program, f) \o Tail(stack))

\* NoRedeclareVisitor::visit_fn_decl
visit_fn_decl ==
  /\ Visiting("no-redeclare", "FnDecl")
  /\ LET f == Head(stack) IN
     IF ~program[f].has_body
     THEN Continue(Visitor, Tail(stack))
     ELSE Continue(declare(Visitor, program[f].ids[1]),
                   ChildrenOf(program, f) \o Tail(stack))

\* visit_var_declarator as it would be if it went on to the declarator's children.
visit_var_declarator_descending ==
  /\ Visiting("no-redeclare", "VarDeclarator")
  /\ Continue(declare_each(Visitor, find_ids(program[Head(stack)].ids)),
              ChildrenOf(program, Head(stack)) \o Tail(stack))

\* NoRedeclareVisitor::visit_var_declarator
visit_var_declarator ==
  /\ Visiting("no-redeclare", "VarDeclarator")
  /\ Continue(declare_each(Visitor, find_ids(program[Head(stack)].ids)), Tail(stack))

\* NoRedeclareVisitor::visit_param
visit_param ==
  /\ Visiting("no-redeclare", "Param")
  /\ Continue(declare_each(Visitor, find_ids(program[Head(stack)].ids)), Tail(stack))

\* NoRedeclareVisitor::visit_class_prop
visit_class_prop ==
  /\ Visiting("no-redeclare", "ClassProp")
  /\ LET p == Head(stack) IN
     Continue(Visitor,
              (IF program[p].computed THEN ChildrenIn(program, p, "key") ELSE <<>>)
                \o ChildrenIn(program, p, "value") \o Tail(stack))

----------------------------------------------------------------------------
(* NoSetterReturnVisitor                                                   *)

RECURSIVE check_stmts_every_return(_, _)
\* The loop of check_block_stmt as it would be without the check for a value.
check_stmts_every_return(diags, stmts) ==
  IF stmts = <<>> THEN diags
  ELSE LET stmt == program[Head(stmts)] IN
       check_stmts_every_return(
         IF stmt.type = "Return"
         THEN add_diagnostic(diags, stmt.span, "no-setter-return",
                             "Setter cannot return a value")
         ELSE diags,
         Tail(stmts))

RECURSIVE check_stmts_deep(_, _)
\* The loop of check_block_stmt as it would be if it went into nested blocks.
check_stmts_deep(diags, stmts) ==
  IF stmts = <<>> THEN diags
  ELSE LET stmt == program[Head(stmts)] IN
       check_stmts_deep(
         IF stmt.type = "Return" /\ stmt.has_arg
         THEN add_diagnostic(diags, stmt.span, "no-setter-return",
                             "Setter cannot return a value")
         ELSE IF stmt.type = "Block"
         THEN check_stmts_deep(diags, ChildrenOf(program, Head(stmts)))
         ELSE diags,
         Tail(stmts))

RECURSIVE check_stmts(_, _)
\* The loop of check_block_stmt over the statements stmts.
check_stmts(diags, stmts) ==
  IF stmts = <<>> THEN diags
  ELSE LET stmt == program[Head(stmts)] IN
       check_stmts(IF stmt.type = "Return" /\ stmt.has_arg
                   THEN add_diagnostic(diags, stmt.span, "no-setter-return",
                                       "Setter cannot return a value")
                   ELSE diags,
                   Tail(stmts))

\* NoSetterReturnVisitor::check_block_stmt on the body of node b.
check_block_stmt(diags, b) == check_stmts(diags, ChildrenIn(program, b, "body"))

\* One arm of the match in visit_class, for the class member m.
check_member(diags, m) ==
  IF program[m].type \in {"ClassMethod", "PrivateMethod"}
  THEN IF program[m].kind = "Setter" /\ program[m].has_body
       THEN check_block_stmt(diags, m)
       ELSE diags
  ELSE diags

RECURSIVE check_members(_, _)
\* for member in &class.body
check_members(diags, members) ==
  IF members = <<>> THEN diags
  ELSE check_members(check_member(diags, Head(members)), Tail(members))

\* visit_class as it would be if it went on to the members of the class.
visit_class_descending ==
  /\ Visiting("no-setter-return", "Class")
  /\ Continue([Visitor EXCEPT !.diagnostics =
                 check_members(@, ChildrenIn(program, Head(stack), "body"))],
              ChildrenOf(program, Head(stack)) \o Tail(stack))

\* NoSetterReturnVisitor::visit_class
visit_class ==
  /\ Visiting("no-setter-return", "Class")
  /\ Continue([Visitor EXCEPT !.diagnostics =
                 check_members(@, ChildrenIn(program, Head(stack), "body"))],
              Tail(stack))

\* NoSetterReturnVisitor::visit_setter_prop
visit_setter_prop ==
  /\ Visiting("no-setter-return", "SetterProp")
  /\ LET p == Head(stack) IN
     Continue([Visitor EXCEPT !.diagnostics =
                 IF program[p].has_body THEN check_block_stmt(@, p) ELSE @],
              Tail(stack))

----------------------------------------------------------------------------
(* Both visitors                                                           *)

\* The node types each visitor has a method of its own for.
Overridden(r) ==
  IF r = "no-redeclare"
  THEN {"FnDecl", "VarDeclarator", "Param", "ClassProp"}
  ELSE {"Class", "SetterProp"}

\* The children of node n, last first.
ChildrenReversed(n) ==
  LET cs == ChildrenOf(program, n) IN [k \in 1..Len(cs) |-> cs[Len(cs) + 1 - k]]

\* The children the default visit of node n goes on to, in source order.
ChildrenToVisit(n) == ChildrenOf(program, n)

\* The default method of Visit for a node type the visitor has no method
\* for: visit the node's children.
visit_children_with ==
  /\ rule \in Rules
  /\ stack # <<>>
  /\ program[Head(stack)].type \notin Overridden(rule)
  /\ Continue(Visitor, ChildrenToVisit(Head(stack)) \o Tail(stack))

RECURSIVE Parsed(_, _)
\* The program is t, or t with more nodes of family fam written after it, up
\* to MaxNodes.
Parsed(t, fam) ==
  \/ program = t
  \/ \E u \in Extensions(t, fam) : Size(u) <= MaxNodes /\ Parsed(u, fam)

Init ==
  /\ \E fam \in Families : Parsed(<<>>, fam)
  /\ rule = "none"
  /\ stack = <<>>
  /\ bindings = {}
  /\ diagnostics = <<>>
  /\ declared = <<>>
  /\ results = [r \in Rules |-> <<>>]

\* The visitor of the running pass visits its next node.
Visit ==
  \/ visit_fn_decl
  \/ visit_var_declarator
  \/ visit_param
  \/ visit_class_prop
  \/ visit_class
  \/ visit_setter_prop
  \/ visit_children_with

Next ==
  \/ \E r \in Rules : lint_program(r)
  \/ Visit

Spec == Init /\ [][Next]_vars

\* The same with a driver that keeps the diagnostics of each rule's first pass.
NextDriver ==
  \/ \E r \in Rules : collect_and_lint(r)
  \/ Visit

SpecDriver == Init /\ [][NextDriver]_vars

----------------------------------------------------------------------------
(* Vocabulary of the properties.                                           *)

Nodes == 1..Len(program)

\* The nodes above node n, the root not counted.
StrictAncestors(n) == Ancestors(program, program[n].parent) \ {0}

\* The identifiers node n carries.
IdentsOf(n) == { program[n].ids[k] : k \in 1..Len(program[n].ids) }

\* The Symbol Identity of an identifier occurrence: its name in its scope.
SymbolIdentity(i) == <<i.sym, i.ctxt>>

\* Source order of spans.
SpanLess(a, b) == a[1] < b[1] \/ (a[1] = b[1] /\ a[2] < b[2])

\* The identifier written at span sp.
IdentAt(sp) == program[sp[1]].ids[sp[2]]

\* How many diagnostics the running pass has reported at span sp.
Reported(sp) == Cardinality({ k \in 1..Len(diagnostics) : diagnostics[k].span = sp })

\* The pass of rule r has visited everything.
Finished(r) == rule = r /\ stack = <<>>

\* Node n is a function declaration without a body, or lies in one.
InBodyless(n) ==
  \E a \in StrictAncestors(n) \cup {n} :
    program[a].type = "FnDecl" /\ ~program[a].has_body

\* The declaring occurrences of the program: the name of a function
\* declaration with a body, and the identifiers of the binding patterns of
\* variable declarators and parameters; a declaration without a body
\* occupies no binding, nor do its parameters.
DeclaringNodes ==
  { n \in Nodes : /\ program[n].type \in {"VarDeclarator", "Param", "FnDecl"}
                  /\ ~InBodyless(n) }

DeclOccs == UNION { IdentsOf(n) : n \in DeclaringNodes }

\* Node n lies beneath a variable declarator or a parameter.
BeneathBinder(n) ==
  \E a \in StrictAncestors(n) : program[a].type \in {"VarDeclarator", "Param"}

\* Node n is a setter with a concrete body.
IsSetter(n) ==
  \/ /\ program[n].type \in {"ClassMethod", "PrivateMethod"}
     /\ program[n].kind = "Setter"
     /\ program[n].has_body
  \/ program[n].type = "SetterProp" /\ program[n].has_body

\* The return statements that are direct statements of the body of node s.
ReturnsOf(s) ==
  { r \in Nodes : /\ program[r].parent = s
                  /\ program[r].field = "body"
                  /\ program[r].type = "Return" }

\* The setter s (for a class member: its class) lies inside another class or
\* inside an object-literal setter.
Enclosed(s) ==
  LET top == IF program[s].type = "SetterProp" THEN s ELSE program[s].parent
  IN \E a \in StrictAncestors(top) : program[a].type \in {"Class", "SetterProp"}

----------------------------------------------------------------------------
(* The properties.                                                         *)

\* C1: when a pass of NoRedeclare has finished, every Symbol Identity that is
\* declared k >= 2 times in the program has exactly k-1 diagnostics, one at
\* each declaring occurrence but the first in source order and none at the
\* first.
C1_EveryRedeclarationReported ==
  Finished("no-redeclare") =>
    \A i \in DeclOccs :
      LET same == { j \in DeclOccs : SymbolIdentity(j) = SymbolIdentity(i) }
      IN Cardinality(same) >= 2 =>
           Reported(i.span) = IF \E j \in same : SpanLess(j.span, i.span) THEN 1 ELSE 0

\* C2: a diagnostic of NoRedeclare is at a declaring occurrence that was
\* declared in this pass after an earlier occurrence of the same Symbol
\* Identity; a program whose declaring occurrences have pairwise distinct
\* Symbol Identities gets no diagnostic.
C2_OnlySameIdentityCollides ==
  rule = "no-redeclare" =>
    /\ \A k \in 1..Len(diagnostics) :
         \E m \in 1..Len(declared) :
           /\ declared[m].span = diagnostics[k].span
           /\ declared[m] \in DeclOccs
           /\ \E e \in 1..(m - 1) :
                /\ SymbolIdentity(declared[e]) = SymbolIdentity(declared[m])
                /\ SpanLess(declared[e].span, declared[m].span)
    /\ (\A i, j \in DeclOccs : i # j => SymbolIdentity(i) # SymbolIdentity(j))
         => diagnostics = <<>>

\* A finished pass that declared two bindings of one name in different scopes
\* and reported nothing.
C2_Witness ==
  /\ Finished("no-redeclare")
  /\ diagnostics = <<>>
  /\ \E m, e \in 1..Len(declared) :
       declared[m].sym = declared[e].sym /\ declared[m].ctxt # declared[e].ctxt

\* C3 as claimed: when a pass of NoSetterReturn has finished, every return
\* statement directly in the body of any setter of the program has one
\* diagnostic if it carries a value and none if it is bare.
C3_EverySetterChecked ==
  Finished("no-setter-return") =>
    \A s \in Nodes : IsSetter(s) =>
      \A r \in ReturnsOf(s) :
        Reported(program[r].span) = IF program[r].has_arg THEN 1 ELSE 0

\* C3 as amended: the same for every setter that does not lie inside another
\* class or inside an object-literal setter.
C3_EveryOuterSetterChecked ==
  Finished("no-setter-return") =>
    \A s \in Nodes : IsSetter(s) /\ ~Enclosed(s) =>
      \A r \in ReturnsOf(s) :
        Reported(program[r].span) = IF program[r].has_arg THEN 1 ELSE 0

\* A finished pass over a setter with a bare return and a return of a value,
\* with one diagnostic.
C3_Witness ==
  /\ Finished("no-setter-return")
  /\ Len(diagnostics) = 1
  /\ \E s \in Nodes :
       /\ IsSetter(s) /\ ~Enclosed(s)
       /\ \E r1, r2 \in ReturnsOf(s) : program[r1].has_arg /\ ~program[r2].has_arg

\* C4: a diagnostic of NoSetterReturn is at a return statement, and every
\* setter the statement lies in holds it directly in its body: a return
\* nested in an inner statement of a setter body is not reported.
C4_OnlyTopLevelReturns ==
  rule = "no-setter-return" =>
    \A k \in 1..Len(diagnostics) :
      LET r == diagnostics[k].span[1] IN
      /\ program[r].type = "Return"
      /\ \A s \in StrictAncestors(r) :
           IsSetter(s) => program[r].parent = s /\ program[r].field = "body"

\* A finished pass over a visited setter whose body has a block with a return
\* of a value in it, which is not reported.
C4_Witness ==
  /\ Finished("no-setter-return")
  /\ \E s, b, r \in Nodes :
       /\ IsSetter(s) /\ ~Enclosed(s)
       /\ program[b].type = "Block" /\ program[b].parent = s
       /\ program[r].type = "Return" /\ program[r].has_arg /\ program[r].parent = b
       /\ Reported(program[r].span) = 0

\* C5: nothing in a function declaration without a body takes part in a pass
\* of NoRedeclare: no diagnostic is at it or inside it, no identifier of it
\* is declared, every binding of the Binding Set is written outside it, and
\* when the pass has finished a Symbol Identity written at most once outside
\* such declarations has no diagnostic.
C5_BodylessFnDeclIgnored ==
  rule = "no-redeclare" =>
    /\ \A k \in 1..Len(diagnostics) : ~InBodyless(diagnostics[k].span[1])
    /\ \A m \in 1..Len(declared) : ~InBodyless(declared[m].span[1])
    /\ \A id \in bindings :
         \E n \in Nodes : ~InBodyless(n) /\ \E i \in IdentsOf(n) : SymbolIdentity(i) = id
    /\ stack = <<>> =>
         \A k \in 1..Len(diagnostics) :
           LET id == SymbolIdentity(IdentAt(diagnostics[k].span))
           IN Cardinality({ i \in UNION { IdentsOf(n) : n \in { x \in Nodes : ~InBodyless(x) } } :
                              SymbolIdentity(i) = id }) >= 2

\* A finished pass over a function declared without a body, with a
\* parameter, and declared again with a body, which reported nothing.
C5_Witness ==
  /\ Finished("no-redeclare")
  /\ diagnostics = <<>>
  /\ \E n1, q, n2 \in Nodes :
       /\ program[n1].type = "FnDecl" /\ ~program[n1].has_body /\ program[n1].parent = 0
       /\ program[q].type = "Param" /\ program[q].parent = n1
       /\ program[n2].type = "FnDecl" /\ program[n2].has_body /\ n1 < n2
       /\ SymbolIdentity(program[n1].ids[1]) = SymbolIdentity(program[n2].ids[1])

\* C6: the diagnostics of a pass are in source order of their spans, each
\* after the ones reported before it.
C6_DiagnosticsInSourceOrder ==
  \A k, l \in 1..Len(diagnostics) :
    k < l => SpanLess(diagnostics[k].span, diagnostics[l].span)

\* A finished pass that reported twice.
C6_Witness ==
  /\ Finished("no-redeclare")
  /\ Len(diagnostics) >= 2

\* C7: when a pass of a rule has finished and the driver holds the
\* diagnostics of an earlier pass of the same rule over the program, whatever
\* passes ran in between, the two are the same.
C7_SamePassSameDiagnostics ==
  (rule \in Rules /\ stack = <<>>) =>
    (results[rule] # <<>> => results[rule][1] = diagnostics)

\* A finished later pass of NoRedeclare with diagnostics, after passes of
\* both rules.
C7_Witness ==
  /\ Finished("no-redeclare")
  /\ diagnostics # <<>>
  /\ \A r \in Rules : results[r] # <<>>

\* C8: during a pass of NoRedeclare the Binding Set is the set of the Symbol
\* Identities declared so far, and the diagnostics reported so far are as
\* many as the declarations so far less the size of the Binding Set.
C8_BindingSetAccounting ==
  rule = "no-redeclare" =>
    /\ bindings = { SymbolIdentity(declared[m]) : m \in 1..Len(declared) }
    /\ Len(diagnostics) = Len(declared) - Cardinality(bindings)

\* A pass that has reported a redeclaration and has nodes left to visit.
C8_Witness ==
  /\ rule = "no-redeclare"
  /\ stack # <<>>
  /\ Len(diagnostics) >= 1
  /\ Cardinality(bindings) >= 2

\* C9: a diagnostic of NoSetterReturn inside a class is at a statement
\* directly in the body of a member of that class that is a setter with a
\* body: nothing deeper in a class member is reported.
C9_ClassMembersNotDescended ==
  rule = "no-setter-return" =>
    \A k \in 1..Len(diagnostics) :
      LET r == diagnostics[k].span[1]
          m == program[r].parent
      IN \A c \in StrictAncestors(r) :
           program[c].type = "Class" =>
             /\ program[m].parent = c
             /\ program[m].type \in {"ClassMethod", "PrivateMethod"}
             /\ program[m].kind = "Setter"
             /\ program[m].has_body

\* A finished pass over a class property whose value is an object-literal
\* setter returning a value, which is not reported.
C9_Witness ==
  /\ Finished("no-setter-return")
  /\ diagnostics = <<>>
  /\ \E c, p, s, r \in Nodes :
       /\ program[c].type = "Class" /\ program[c].parent = 0
       /\ program[p].type = "ClassProp" /\ program[p].parent = c
       /\ program[s].type = "SetterProp" /\ program[s].parent = p
       /\ r \in ReturnsOf(s) /\ program[r].has_arg

\* C10: in a pass of NoRedeclare nothing beneath a variable declarator or a
\* parameter is declared, reported or put into the Binding Set, and when the
\* pass has finished every identifier of the pattern of a declarator or
\* parameter that lies in no declarator, parameter or function declaration
\* without a body has been declared once.
C10_InitializersNotTraversed ==
  rule = "no-redeclare" =>
    /\ \A m \in 1..Len(declared) : ~BeneathBinder(declared[m].span[1])
    /\ \A k \in 1..Len(diagnostics) : ~BeneathBinder(diagnostics[k].span[1])
    /\ \A id \in bindings :
         \E n \in Nodes : ~BeneathBinder(n) /\ \E i \in IdentsOf(n) : SymbolIdentity(i) = id
    /\ stack = <<>> =>
         \A n \in Nodes :
           (/\ program[n].type \in {"VarDeclarator", "Param"}
            /\ ~BeneathBinder(n)
            /\ ~InBodyless(n))
           => \A i \in IdentsOf(n) :
                Cardinality({ m \in 1..Len(declared) : declared[m] = i }) = 1

\* A finished pass over a variable whose initializer is a function with a
\* binding of its own, none of which was declared.
C10_Witness ==
  /\ Finished("no-redeclare")
  /\ \E v, e, q \in Nodes :
       /\ program[v].type = "VarDeclarator" /\ program[v].parent = 0
       /\ program[e].type = "FnExpr" /\ program[e].parent = v
       /\ program[q].type \in {"VarDeclarator", "Param"} /\ program[q].parent = e
       /\ \A m \in 1..Len(declared) : declared[m].span[1] # q
       /\ Len(declared) = Len(program[v].ids)

====
